---- MODULE Spec2Model ----
(***************************************************************************)
(* Model of the Matrix script pipeline:                                    *)
(*   kbac/loaders/matrix_script_loader.py   (line classifier, page driver) *)
(*   src/services/implementations/matrix_document_loader_service.py        *)
(*                                          (scene aggregation)            *)
(*   src/services/rag_service.py            (index and query orchestration)*)
(* The loader modelled is the one the service imports; the legacy          *)
(* kbac/loaders/antiguo_matrix_script_loader.py is imported by nothing.    *)
(* Strings are sequences of one-character strings, so that the regular     *)
(* expressions, str.strip, str.isupper and the substring test of the       *)
(* source are computed character by character.                             *)
(***************************************************************************)
EXTENDS Integers, Sequences, FiniteSets, TLC

VARIABLES
    location_margins,     \* self.location_margins
    description_margins,  \* self.description_margins
    dialog_margins,       \* self.dialog_margins
    character_margins,    \* self.character_margins
    ignoread_tags,        \* self.ignoread_tags
    line_text,            \* argument of the last _parse_page_line call
    page_number,          \* argument of the last _parse_page_line call
    result,               \* outcome of the last _parse_page_line call
    start_page,           \* self.start_page: {} is None, {n} is n
    end_page,             \* self.end_page: {} is None, {n} is n
    reader_pages,         \* reader.pages: the physical lines of each page
    page,                 \* argument of the last parse_page call
    page_outcome,         \* outcome of the last parse_page call
    documents,            \* what MatrixScriptLoader.load returned
    scene_chunks,         \* what load_documents returned
    request,              \* the RAGService call made and its arguments
    calls,                \* calls made on the loader, retriever and generator
    retrieved_docs,       \* query: retrieved_docs after the retrieval attempts
    unique_docs,          \* query: unique_docs
    result_data,          \* query: the dict returned
    pc                    \* position of the run

vars == <<location_margins, description_margins, dialog_margins,
          character_margins, ignoread_tags, line_text, page_number, result,
          start_page, end_page, reader_pages, page, page_outcome, documents,
          scene_chunks, request, calls, retrieved_docs, unique_docs,
          result_data, pc>>

rag_vars == <<request, calls, retrieved_docs, unique_docs, result_data>>

loader_vars == <<location_margins, description_margins, dialog_margins,
                 character_margins, ignoread_tags, line_text, page_number,
                 result, start_page, end_page, reader_pages, page,
                 page_outcome, documents, scene_chunks>>

config_vars == <<location_margins, description_margins, dialog_margins,
                 character_margins, ignoread_tags, start_page, end_page>>

-----------------------------------------------------------------------------
(* Bounds of the enumerated inputs *)

MaxBody == 3      \* characters of free text in an enumerated line
MaxIndent == 3    \* leading (or post scene number) spaces in an enumerated line

-----------------------------------------------------------------------------
(* Characters *)

UpperSeq == <<"A","B","C","D","E","F","G","H","I","J","K","L","M",
             "N","O","P","Q","R","S","T","U","V","W","X","Y","Z">>
LowerSeq == <<"a","b","c","d","e","f","g","h","i","j","k","l","m",
             "n","o","p","q","r","s","t","u","v","w","x","y","z">>
Upper == {UpperSeq[i] : i \in 1..26}
Lower == {LowerSeq[i] : i \in 1..26}
Digit == {"0","1","2","3","4","5","6","7","8","9"}
Whitespace == {" ", "\n"}

Spaces(n) == [i \in 1..n |-> " "]

\* str.isupper(): at least one cased character and no lowercase one
isupper(s) ==
    /\ \E i \in 1..Len(s) : s[i] \in Upper
    /\ \A i \in 1..Len(s) : s[i] \notin Lower

\* number of whitespace characters s starts with: what (\s{2,}) can take
LeadingWs(s) ==
    IF \A i \in 1..Len(s) : s[i] \in Whitespace THEN Len(s)
    ELSE (CHOOSE i \in 1..Len(s) :
            /\ s[i] \notin Whitespace
            /\ \A j \in 1..(i-1) : s[j] \in Whitespace) - 1

TrailingWs(s) ==
    IF \A i \in 1..Len(s) : s[i] \in Whitespace THEN Len(s)
    ELSE Len(s) - (CHOOSE i \in 1..Len(s) :
            /\ s[i] \notin Whitespace
            /\ \A j \in (i+1)..Len(s) : s[j] \in Whitespace)

\* str.strip()
strip(s) ==
    IF LeadingWs(s) = Len(s) THEN <<>>
    ELSE SubSeq(s, LeadingWs(s) + 1, Len(s) - TrailingWs(s))

\* Python's `tag in s` for strings
Contains(s, tag) ==
    \E i \in 0..(Len(s) - Len(tag)) : SubSeq(s, i + 1, i + Len(tag)) = tag

\* regex.sub(r"\(.*\)", "", s): the leftmost "(" that has a ")" after it,
\* up to the last ")" of the string (.* is greedy), is removed
SubParenthetical(s) ==
    LET opens  == {i \in 1..Len(s) : s[i] = "("}
        closes == {i \in 1..Len(s) : s[i] = ")"}
    IN  IF opens = {} \/ closes = {} THEN s
        ELSE LET first == CHOOSE i \in opens : \A k \in opens : i <= k
                 last  == CHOOSE j \in closes : \A k \in closes : k <= j
             IN  IF first < last
                 THEN SubSeq(s, 1, first - 1) \o SubSeq(s, last + 1, Len(s))
                 ELSE s

-----------------------------------------------------------------------------
(* The extractors: each returns (text, margin) or (None, None) *)

NoneNone == [matched |-> FALSE, text |-> <<>>, margin |-> 0]

Matched(text, margin) == [matched |-> TRUE, text |-> text, margin |-> margin]

\* Python's `if text:` on the first component: neither None nor ""
Truthy(r) == r.matched /\ Len(r.text) > 0

\* (\s{2,}[AB]?\d+$) matched against the whole of s
IsRightBracket(s) ==
    LET w == LeadingWs(s)
        p == IF w < Len(s) /\ s[w + 1] \in {"A", "B"} THEN 1 ELSE 0
    IN  /\ w >= 2
        /\ w + p < Len(s)
        /\ \A i \in (w + p + 1)..Len(s) : s[i] \in Digit

\* regex.match(r"([AB]?\d+\s{2,})(.*?)(\s{2,}[AB]?\d+$)", s): the set of
\* <<end of group 1, end of group 2>> of all the ways the pattern matches
LocationMatches(s) ==
    LET p == IF Len(s) >= 1 /\ s[1] \in {"A", "B"} THEN 1 ELSE 0
        rest == SubSeq(s, p + 1, Len(s))
        d == IF \A i \in 1..Len(rest) : rest[i] \in Digit THEN Len(rest)
             ELSE (CHOOSE i \in 1..Len(rest) :
                     /\ rest[i] \notin Digit
                     /\ \A j \in 1..(i-1) : rest[j] \in Digit) - 1
        w == LeadingWs(SubSeq(s, p + d + 1, Len(s)))
    IN  IF d = 0 THEN {}
        ELSE {m \in {<<p + d + i, e>> : i \in 2..w, e \in (p + d + 2)..Len(s)} :
                 /\ m[2] >= m[1]
                 /\ IsRightBracket(SubSeq(s, m[2] + 1, Len(s)))}

\* the match the backtracking engine reports: group 1 greedy (longest first),
\* group 2 lazy (shortest first)
LocationMatch(s) ==
    LET matches == LocationMatches(s)
    IN  CHOOSE m \in matches :
            \A o \in matches :
                \/ o[1] < m[1]
                \/ (o[1] = m[1] /\ o[2] >= m[2])

\* variant: the margin counts only the whitespace run, not the scene number
_get_location_text_whitespace_margin(s) ==
    IF ~isupper(s) THEN NoneNone
    ELSE IF LocationMatches(s) = {} THEN NoneNone
    ELSE LET m == LocationMatch(s)
             margin == Cardinality({i \in 1..m[1] : s[i] \in Whitespace})
         IN  IF margin \notin location_margins THEN NoneNone
             ELSE Matched(strip(SubSeq(s, m[1] + 1, m[2])), margin)

_get_location_text(s) ==
    IF ~isupper(s) THEN NoneNone
    ELSE IF LocationMatches(s) = {} THEN NoneNone
    ELSE LET m == LocationMatch(s)
             margin == m[1]
         IN  IF margin \notin location_margins THEN NoneNone
             ELSE Matched(strip(SubSeq(s, m[1] + 1, m[2])), margin)

\* variant: the margin is not tested against character_margins
_get_character_text_any_margin(s) ==
    IF ~isupper(s) THEN NoneNone
    ELSE IF LeadingWs(s) < 2 THEN NoneNone
    ELSE LET margin == LeadingWs(s)
         IN  Matched(strip(SubParenthetical(SubSeq(s, margin + 1, Len(s)))),
                     margin)

\* variant: the parenthetical is kept
_get_character_text_keeps_parenthetical(s) ==
    IF ~isupper(s) THEN NoneNone
    ELSE IF LeadingWs(s) < 2 THEN NoneNone
    ELSE LET margin == LeadingWs(s)
         IN  IF margin \notin character_margins THEN NoneNone
             ELSE Matched(strip(SubSeq(s, margin + 1, Len(s))), margin)

_get_character_text(s) ==
    IF ~isupper(s) THEN NoneNone
    ELSE IF LeadingWs(s) < 2 THEN NoneNone
    ELSE LET margin == LeadingWs(s)
         IN  IF margin \notin character_margins THEN NoneNone
             ELSE Matched(strip(SubParenthetical(SubSeq(s, margin + 1, Len(s)))),
                          margin)

\* variant: an uppercase line is refused
_get_non_upper_text_rejects_upper(s, margins) ==
    IF isupper(s) THEN NoneNone
    ELSE IF LeadingWs(s) < 2 THEN NoneNone
    ELSE LET margin == LeadingWs(s)
         IN  IF margin \notin margins THEN NoneNone
             ELSE Matched(strip(SubSeq(s, margin + 1, Len(s))), margin)

_get_non_upper_text(s, margins) ==
    IF LeadingWs(s) < 2 THEN NoneNone
    ELSE LET margin == LeadingWs(s)
         IN  IF margin \notin margins THEN NoneNone
             ELSE Matched(strip(SubSeq(s, margin + 1, Len(s))), margin)

_get_description_text(s) == _get_non_upper_text(s, description_margins)

_get_dialog_text(s) == _get_non_upper_text(s, dialog_margins)

-----------------------------------------------------------------------------
(* LineItem and _parse_page_line *)

None == [status |-> "None", page_number |-> 0, text_type |-> "",
         text |-> <<>>, margin |-> 0]

ValidationError == [status |-> "ValidationError", page_number |-> 0,
                    text_type |-> "", text |-> <<>>, margin |-> 0]

\* `None < 1`: comparing a missing page number with a bound
TypeError == [status |-> "TypeError", page_number |-> 0,
              text_type |-> "", text |-> <<>>, margin |-> 0]

\* a page object: page_number is {} for None and {n} for n; lines is
\* extract_text(extraction_mode="layout").split("\n")
NoPage == [page_number |-> {}, lines |-> <<>>]

\* no call of parse_page yet
NoOutcome == [raised |-> FALSE, extracted |-> FALSE, items |-> <<>>]

\* the pydantic model: NonNegativeInt, Field(min_length=1), PositiveInt
LineItem(pn, text_type, text, margin) ==
    IF pn >= 0 /\ Len(text) >= 1 /\ margin >= 1
    THEN [status |-> "LineItem", page_number |-> pn, text_type |-> text_type,
          text |-> text, margin |-> margin]
    ELSE ValidationError

\* variant: description is tried before dialog
_parse_page_line_description_first(s, pn) ==
    LET location == _get_location_text(s)
        character == _get_character_text(s)
        dialog == _get_dialog_text(s)
        description == _get_description_text(s)
        no_matched_text == strip(s)
    IN  IF \E k \in 1..Len(ignoread_tags) : Contains(s, ignoread_tags[k])
        THEN None
        ELSE IF Truthy(location)
        THEN LineItem(pn, "location", location.text, location.margin)
        ELSE IF Truthy(character)
        THEN LineItem(pn, "character", character.text, character.margin)
        ELSE IF Truthy(description)
        THEN LineItem(pn, "description", description.text, description.margin)
        ELSE IF Truthy(dialog)
        THEN LineItem(pn, "dialog", dialog.text, dialog.margin)
        ELSE IF Len(no_matched_text) > 0
        THEN LineItem(pn, "description", no_matched_text, 1)
        ELSE None

\* variant: the fallback keeps the untrimmed line
_parse_page_line_unstripped_fallback(s, pn) ==
    LET location == _get_location_text(s)
        character == _get_character_text(s)
        dialog == _get_dialog_text(s)
        description == _get_description_text(s)
        no_matched_text == strip(s)
    IN  IF \E k \in 1..Len(ignoread_tags) : Contains(s, ignoread_tags[k])
        THEN None
        ELSE IF Truthy(location)
        THEN LineItem(pn, "location", location.text, location.margin)
        ELSE IF Truthy(character)
        THEN LineItem(pn, "character", character.text, character.margin)
        ELSE IF Truthy(dialog)
        THEN LineItem(pn, "dialog", dialog.text, dialog.margin)
        ELSE IF Truthy(description)
        THEN LineItem(pn, "description", description.text, description.margin)
        ELSE IF Len(no_matched_text) > 0
        THEN LineItem(pn, "description", s, 1)
        ELSE None

\* variant: an unclassified line is dropped
_parse_page_line_no_fallback(s, pn) ==
    LET location == _get_location_text(s)
        character == _get_character_text(s)
        dialog == _get_dialog_text(s)
        description == _get_description_text(s)
        no_matched_text == strip(s)
    IN  IF \E k \in 1..Len(ignoread_tags) : Contains(s, ignoread_tags[k])
        THEN None
        ELSE IF Truthy(location)
        THEN LineItem(pn, "location", location.text, location.margin)
        ELSE IF Truthy(character)
        THEN LineItem(pn, "character", character.text, character.margin)
        ELSE IF Truthy(dialog)
        THEN LineItem(pn, "dialog", dialog.text, dialog.margin)
        ELSE IF Truthy(description)
        THEN LineItem(pn, "description", description.text, description.margin)
        ELSE IF Len(no_matched_text) > 0
        THEN None
        ELSE None

\* variant: the tests are `is not None`, not truthiness
_parse_page_line_not_none_checks(s, pn) ==
    LET location == _get_location_text(s)
        character == _get_character_text(s)
        dialog == _get_dialog_text(s)
        description == _get_description_text(s)
        no_matched_text == strip(s)
    IN  IF \E k \in 1..Len(ignoread_tags) : Contains(s, ignoread_tags[k])
        THEN None
        ELSE IF location.matched
        THEN LineItem(pn, "location", location.text, location.margin)
        ELSE IF character.matched
        THEN LineItem(pn, "character", character.text, character.margin)
        ELSE IF dialog.matched
        THEN LineItem(pn, "dialog", dialog.text, dialog.margin)
        ELSE IF description.matched
        THEN LineItem(pn, "description", description.text, description.margin)
        ELSE IF Len(no_matched_text) > 0
        THEN LineItem(pn, "description", no_matched_text, 1)
        ELSE None

\* variant: only the first ignore tag is looked for
_parse_page_line_first_tag_only(s, pn) ==
    LET location == _get_location_text(s)
        character == _get_character_text(s)
        dialog == _get_dialog_text(s)
        description == _get_description_text(s)
        no_matched_text == strip(s)
    IN  IF ignoread_tags # <<>> /\ Contains(s, ignoread_tags[1])
        THEN None
        ELSE IF Truthy(location)
        THEN LineItem(pn, "location", location.text, location.margin)
        ELSE IF Truthy(character)
        THEN LineItem(pn, "character", character.text, character.margin)
        ELSE IF Truthy(dialog)
        THEN LineItem(pn, "dialog", dialog.text, dialog.margin)
        ELSE IF Truthy(description)
        THEN LineItem(pn, "description", description.text, description.margin)
        ELSE IF Len(no_matched_text) > 0
        THEN LineItem(pn, "description", no_matched_text, 1)
        ELSE None

_parse_page_line(s, pn) ==
    LET location == _get_location_text(s)
        character == _get_character_text(s)
        dialog == _get_dialog_text(s)
        description == _get_description_text(s)
        no_matched_text == strip(s)
    IN  IF \E k \in 1..Len(ignoread_tags) : Contains(s, ignoread_tags[k])
        THEN None
        ELSE IF Truthy(location)
        THEN LineItem(pn, "location", location.text, location.margin)
        ELSE IF Truthy(character)
        THEN LineItem(pn, "character", character.text, character.margin)
        ELSE IF Truthy(dialog)
        THEN LineItem(pn, "dialog", dialog.text, dialog.margin)
        ELSE IF Truthy(description)
        THEN LineItem(pn, "description", description.text, description.margin)
        ELSE IF Len(no_matched_text) > 0
        THEN LineItem(pn, "description", no_matched_text, 1)
        ELSE None

-----------------------------------------------------------------------------
(* Enumerated inputs of the classifier *)

BodyAlphabet == {"A", "a", "(", ")", " "}

RECURSIVE StringsUpTo(_)
StringsUpTo(n) ==
    IF n = 0 THEN {<<>>}
    ELSE LET shorter == StringsUpTo(n - 1)
         IN  shorter \cup {Append(b, c) : b \in shorter, c \in BodyAlphabet}

\* scene-number brackets put around the free text
Brackets == { <<<<>>, <<>>>>,
              <<<<"1">>, <<" ", " ", "1">>>>,
              <<<<"A", "1">>, <<" ", " ", "B", "2">>>>,
              <<<<"1">>, <<" ", "1">>>> }

Lines == { br[1] \o Spaces(n) \o b \o br[2] :
             br \in Brackets, n \in 0..MaxIndent, b \in StringsUpTo(MaxBody) }

LocationMarginSets == {{3}, {3, 4}}

CharacterMarginSets == {{2}, {3}}

DialogMarginSets == {{1}, {2}}

DescriptionMarginSets == {{1}, {2}, {2, 3}}

TagLists == { << <<"A", "A">>, <<")", "(">> >> }

PageNumbers == {0, 7}

\* no RAGService call has been made
NoRequest ==
    /\ request = [op |-> "none"]
    /\ calls = <<>>
    /\ retrieved_docs = <<>>
    /\ unique_docs = <<>>
    /\ result_data = [op |-> "none"]

-----------------------------------------------------------------------------
(* Specification of the classifier: any line, any configuration *)

InitLine ==
    /\ location_margins \in LocationMarginSets
    /\ character_margins \in CharacterMarginSets
    /\ dialog_margins \in DialogMarginSets
    /\ description_margins \in DescriptionMarginSets
    /\ ignoread_tags \in TagLists
    /\ line_text = <<>>
    /\ page_number = 0
    /\ result = None
    /\ start_page = {1}
    /\ end_page = {}
    /\ reader_pages = <<>>
    /\ page = NoPage
    /\ page_outcome = NoOutcome
    /\ documents = <<>>
    /\ scene_chunks = <<>>
    /\ NoRequest
    /\ pc = "line"

ParsePageLine ==
    /\ pc = "line"
    /\ \E s \in Lines, pn \in PageNumbers :
         /\ line_text' = s
         /\ page_number' = pn
         /\ result' = _parse_page_line(s, pn)
    /\ pc' = "parsed"
    /\ UNCHANGED rag_vars
    /\ UNCHANGED <<config_vars, reader_pages, page, page_outcome, documents,
                   scene_chunks>>

NextLine == ParsePageLine

SpecLine == InitLine /\ [][NextLine]_vars

-----------------------------------------------------------------------------
(* MatrixScriptLoader.parse_page and MatrixScriptLoader.load *)

\* Python's `self.start_page and ...`: None and 0 are both falsy
IntTruthy(opt) == \E v \in opt : v # 0

\* _parse_page_line(line_text, page.page_number): a LineItem built with the
\* page number None fails the validation of NonNegativeInt
ParseLineOfPage(s, pg) ==
    IF pg.page_number = {}
    THEN IF _parse_page_line(s, 0) = None THEN None ELSE ValidationError
    ELSE _parse_page_line(s, CHOOSE n \in pg.page_number : TRUE)

\* [li for li in line_items if li is not None]
ExtractedItems(pg) ==
    SelectSeq([i \in 1..Len(pg.lines) |-> ParseLineOfPage(pg.lines[i], pg)],
              LAMBDA li : li # None)

\* the first exception met is what the call raises
Raised(items) ==
    \E i \in 1..Len(items) : items[i].status \in {"TypeError", "ValidationError"}

\* the outcome of parse_page(pg): what it returns (items), whether it got as
\* far as page.extract_text (extracted), and an exception kept as the item
\* that raised it
parse_page(pg) ==
    IF IntTruthy(start_page) /\ pg.page_number = {}
    THEN [extracted |-> FALSE, items |-> <<TypeError>>]
    ELSE IF IntTruthy(start_page)
            /\ \E v \in start_page, n \in pg.page_number : n < v
    THEN [extracted |-> FALSE, items |-> <<>>]
    ELSE IF IntTruthy(end_page) /\ pg.page_number = {}
    THEN [extracted |-> FALSE, items |-> <<TypeError>>]
    ELSE IF IntTruthy(end_page)
            /\ \E v \in end_page, n \in pg.page_number : n > v
    THEN [extracted |-> FALSE, items |-> <<>>]
    ELSE [extracted |-> TRUE, items |-> ExtractedItems(pg)]

\* variant: the pages are put together last page first
RECURSIVE flatten_last_page_first(_)
flatten_last_page_first(seqs) ==
    IF seqs = <<>> THEN <<>>
    ELSE flatten_last_page_first(Tail(seqs)) \o Head(seqs)

RECURSIVE flatten(_)
flatten(seqs) ==
    IF seqs = <<>> THEN <<>> ELSE Head(seqs) \o flatten(Tail(seqs))

\* the line items of the whole document, in reader order
LineItems ==
    flatten([i \in 1..Len(reader_pages) |-> parse_page(reader_pages[i]).items])

Document(text, metadata) == [text |-> text, metadata |-> metadata]

load ==
    LET line_items == LineItems
    IN  [i \in 1..Len(line_items) |->
            Document(line_items[i].text,
                     [text_type |-> line_items[i].text_type,
                      page_number |-> line_items[i].page_number])]

-----------------------------------------------------------------------------
(* MatrixDocumentLoaderService *)

Str_Location == <<"L","o","c","a","t","i","o","n",":"," ">>
Str_SceneDescription == <<"S","c","e","n","e"," ","d","e","s","c","r","i","p","t","i","o","n",":"," ">>
Str_Unknown == <<"U","n","k","n","o","w","n">>
Str_ColonSpace == <<":", " ">>
Str_Newline == <<"\n">>

QDRANT_COLLECTION == "matrix_collection"

\* str.upper()
upper(s) ==
    [i \in 1..Len(s) |->
        IF s[i] \in Lower
        THEN UpperSeq[CHOOSE k \in 1..26 : LowerSeq[k] = s[i]]
        ELSE s[i]]

\* variant: a location line that repeats the current location opens no scene
RECURSIVE AssignScenes_same_location_merged(_, _, _)
AssignScenes_same_location_merged(docs, scene_id, current_location) ==
    IF docs = <<>> THEN <<>>
    ELSE LET doc == Head(docs)
             is_location == doc.metadata.text_type = "location"
             location == IF is_location THEN <<doc.text>> ELSE current_location
             sid == IF is_location /\ current_location # <<doc.text>>
                    THEN scene_id + 1 ELSE scene_id
             tagged == IF location # <<>> /\ Len(location[1]) > 0
                       THEN [text |-> doc.text,
                             metadata |-> [text_type |-> doc.metadata.text_type,
                                           page_number |-> doc.metadata.page_number,
                                           has_scene_id |-> TRUE,
                                           location |-> location[1],
                                           scene_id |-> sid]]
                       ELSE [text |-> doc.text,
                             metadata |-> [text_type |-> doc.metadata.text_type,
                                           page_number |-> doc.metadata.page_number,
                                           has_scene_id |-> FALSE,
                                           location |-> <<>>,
                                           scene_id |-> 0]]
         IN  <<tagged>> \o AssignScenes_same_location_merged(Tail(docs), sid, location)

\* variant: the lines before the first location line are put in scene 0
RECURSIVE AssignScenes_prologue_scene_zero(_, _, _)
AssignScenes_prologue_scene_zero(docs, scene_id, current_location) ==
    IF docs = <<>> THEN <<>>
    ELSE LET doc == Head(docs)
             is_location == doc.metadata.text_type = "location"
             location == IF is_location THEN <<doc.text>> ELSE current_location
             sid == IF is_location THEN scene_id + 1 ELSE scene_id
             tagged == IF location # <<>> /\ Len(location[1]) > 0
                       THEN [text |-> doc.text,
                             metadata |-> [text_type |-> doc.metadata.text_type,
                                           page_number |-> doc.metadata.page_number,
                                           has_scene_id |-> TRUE,
                                           location |-> location[1],
                                           scene_id |-> sid]]
                       ELSE [text |-> doc.text,
                             metadata |-> [text_type |-> doc.metadata.text_type,
                                           page_number |-> doc.metadata.page_number,
                                           has_scene_id |-> TRUE,
                                           location |-> <<>>,
                                           scene_id |-> 0]]
         IN  <<tagged>> \o AssignScenes_prologue_scene_zero(Tail(docs), sid, location)

\* the first loop of load_documents: every document from the first location
\* line on gets metadata.location and metadata.scene_id; current_location is
\* <<>> for None and <<text>> otherwise
RECURSIVE AssignScenes(_, _, _)
AssignScenes(docs, scene_id, current_location) ==
    IF docs = <<>> THEN <<>>
    ELSE LET doc == Head(docs)
             is_location == doc.metadata.text_type = "location"
             location == IF is_location THEN <<doc.text>> ELSE current_location
             sid == IF is_location THEN scene_id + 1 ELSE scene_id
             tagged == IF location # <<>> /\ Len(location[1]) > 0
                       THEN [text |-> doc.text,
                             metadata |-> [text_type |-> doc.metadata.text_type,
                                           page_number |-> doc.metadata.page_number,
                                           has_scene_id |-> TRUE,
                                           location |-> location[1],
                                           scene_id |-> sid]]
                       ELSE [text |-> doc.text,
                             metadata |-> [text_type |-> doc.metadata.text_type,
                                           page_number |-> doc.metadata.page_number,
                                           has_scene_id |-> FALSE,
                                           location |-> <<>>,
                                           scene_id |-> 0]]
         IN  <<tagged>> \o AssignScenes(Tail(docs), sid, location)

\* current_char is <<>> for None and <<text>> otherwise
RECURSIVE FormatLines(_, _, _)
FormatLines(docs, current_char, full_text) ==
    IF docs = <<>> THEN full_text
    ELSE LET doc == Head(docs)
             text_type == doc.metadata.text_type
             speaker == IF current_char # <<>> /\ Len(current_char[1]) > 0
                        THEN current_char[1] ELSE Str_Unknown
         IN  IF text_type = "character"
             THEN FormatLines(Tail(docs), <<doc.text>>, full_text)
             ELSE IF text_type = "dialog"
             THEN FormatLines(Tail(docs), current_char,
                      full_text \o speaker \o Str_ColonSpace \o doc.text \o Str_Newline)
             ELSE IF text_type = "description"
             THEN FormatLines(Tail(docs), current_char,
                      full_text \o Str_SceneDescription \o doc.text \o Str_Newline)
             ELSE FormatLines(Tail(docs), current_char, full_text)

\* variant: only the dialog lines are written
_format_scene_content_dialog_only(docs, location) ==
    strip(FormatLines(SelectSeq(docs, LAMBDA d : d.metadata.text_type
                                                    \in {"character", "dialog"}),
                      <<>>, Str_Location \o location \o Str_Newline))

_format_scene_content(docs, location) ==
    strip(FormatLines(docs, <<>>, Str_Location \o location \o Str_Newline))

Min(S) == CHOOSE x \in S : \A y \in S : x <= y
Max(S) == CHOOSE x \in S : \A y \in S : y <= x

\* the characters of the model in the order of their code points
CodePointOrder ==
    <<"\n", " ", "'", "(", ")", ".", "0", "1", "2", "3", "4", "5", "6", "7",
      "8", "9", ":">> \o UpperSeq \o LowerSeq

ord(c) == CHOOSE k \in 1..Len(CodePointOrder) : CodePointOrder[k] = c

\* Python's a < b on strings: the first differing character decides, and a
\* proper prefix is smaller
StrLess(a, b) ==
    \/ Len(a) < Len(b) /\ SubSeq(b, 1, Len(a)) = a
    \/ \E i \in 1..Min({Len(a), Len(b)}) :
          /\ SubSeq(a, 1, i - 1) = SubSeq(b, 1, i - 1)
          /\ ord(a[i]) < ord(b[i])

\* sorted(list(S)) for a set S of strings
RECURSIVE sorted(_)
sorted(S) ==
    IF S = {} THEN <<>>
    ELSE LET least == CHOOSE a \in S : \A b \in S \ {a} : StrLess(a, b)
         IN  <<least>> \o sorted(S \ {least})

\* variant: the names are looked for on the dialog lines
_aggregate_metadata_character_field(docs, location, scene_number) ==
    LET characters == sorted({upper(docs[i].text) :
                                i \in {j \in 1..Len(docs) :
                                         docs[j].metadata.text_type = "dialog"}})
        page_numbers == {docs[i].metadata.page_number : i \in 1..Len(docs)}
    IN  [scene_number |-> scene_number,
         location |-> location,
         characters |-> characters,
         page_start |-> IF page_numbers # {} THEN Min(page_numbers) ELSE -1,
         page_end |-> IF page_numbers # {} THEN Max(page_numbers) ELSE -1,
         _id |-> scene_number,
         _collection_name |-> QDRANT_COLLECTION]

\* variant: a cue counts only when a dialog line follows it directly
_aggregate_metadata_speaking_only(docs, location, scene_number) ==
    LET characters == sorted({upper(docs[i].text) :
                                i \in {j \in 1..(Len(docs) - 1) :
                                         /\ docs[j].metadata.text_type = "character"
                                         /\ docs[j + 1].metadata.text_type = "dialog"}})
        page_numbers == {docs[i].metadata.page_number : i \in 1..Len(docs)}
    IN  [scene_number |-> scene_number,
         location |-> location,
         characters |-> characters,
         page_start |-> IF page_numbers # {} THEN Min(page_numbers) ELSE -1,
         page_end |-> IF page_numbers # {} THEN Max(page_numbers) ELSE -1,
         _id |-> scene_number,
         _collection_name |-> QDRANT_COLLECTION]

\* variant: the collection name is left out of the metadata
_aggregate_metadata_without_collection(docs, location, scene_number) ==
    LET characters == sorted({upper(docs[i].text) :
                                i \in {j \in 1..Len(docs) :
                                         docs[j].metadata.text_type = "character"}})
        page_numbers == {docs[i].metadata.page_number : i \in 1..Len(docs)}
    IN  [scene_number |-> scene_number,
         location |-> location,
         characters |-> characters,
         page_start |-> IF page_numbers # {} THEN Min(page_numbers) ELSE -1,
         page_end |-> IF page_numbers # {} THEN Max(page_numbers) ELSE -1,
         _id |-> scene_number]

\* _id is a fresh uuid4, kept as the scene number, which is distinct for
\* every chunk
_aggregate_metadata(docs, location, scene_number) ==
    LET characters == sorted({upper(docs[i].text) :
                                i \in {j \in 1..Len(docs) :
                                         docs[j].metadata.text_type = "character"}})
        page_numbers == {docs[i].metadata.page_number : i \in 1..Len(docs)}
    IN  [scene_number |-> scene_number,
         location |-> location,
         characters |-> characters,
         page_start |-> IF page_numbers # {} THEN Min(page_numbers) ELSE -1,
         page_end |-> IF page_numbers # {} THEN Max(page_numbers) ELSE -1,
         _id |-> scene_number,
         _collection_name |-> QDRANT_COLLECTION]

\* variant: the sort is not stable and leaves each group last line first
RECURSIVE SceneChunksFrom_group_reversed(_, _, _)
SceneChunksFrom_group_reversed(docs, scene_id, last) ==
    IF scene_id > last THEN <<>>
    ELSE LET group == SelectSeq(docs, LAMBDA d : d.metadata.scene_id = scene_id)
             docs_in_scene == [i \in 1..Len(group) |-> group[Len(group) + 1 - i]]
         IN  IF docs_in_scene = <<>>
             THEN SceneChunksFrom_group_reversed(docs, scene_id + 1, last)
             ELSE LET location == docs_in_scene[1].metadata.location
                      scene_content == _format_scene_content(docs_in_scene, location)
                  IN  <<[text |-> scene_content,
                         page_content |-> scene_content,
                         metadata |-> _aggregate_metadata(docs_in_scene, location,
                                                          scene_id)]>>
                      \o SceneChunksFrom_group_reversed(docs, scene_id + 1, last)

\* groupby(sorted(docs, key=scene_id), key=scene_id): the sort is stable and
\* the keys are those present, in increasing order
RECURSIVE SceneChunksFrom(_, _, _)
SceneChunksFrom(docs, scene_id, last) ==
    IF scene_id > last THEN <<>>
    ELSE LET docs_in_scene ==
                 SelectSeq(docs, LAMBDA d : d.metadata.scene_id = scene_id)
         IN  IF docs_in_scene = <<>>
             THEN SceneChunksFrom(docs, scene_id + 1, last)
             ELSE LET location == docs_in_scene[1].metadata.location
                      scene_content == _format_scene_content(docs_in_scene, location)
                  IN  <<[text |-> scene_content,
                         page_content |-> scene_content,
                         metadata |-> _aggregate_metadata(docs_in_scene, location,
                                                          scene_id)]>>
                      \o SceneChunksFrom(docs, scene_id + 1, last)

\* variant: the chunks are numbered in the order they are emitted
load_documents_renumbered(base_documents) ==
    LET dict_documents == AssignScenes(base_documents, 0, <<>>)
        docs_with_scene_id ==
            SelectSeq(dict_documents,
                      LAMBDA d : d.metadata.has_scene_id
                                 /\ d.metadata.text_type # "location")
        ids == {docs_with_scene_id[i].metadata.scene_id :
                  i \in 1..Len(docs_with_scene_id)}
        chunks == IF ids = {} THEN <<>>
                  ELSE SceneChunksFrom(docs_with_scene_id, Min(ids), Max(ids))
    IN  [c \in 1..Len(chunks) |->
            [chunks[c] EXCEPT !.metadata.scene_number = c]]

\* variant: only the dialog and description lines are kept for grouping
load_documents_text_lines_only(base_documents) ==
    LET dict_documents == AssignScenes(base_documents, 0, <<>>)
        docs_with_scene_id ==
            SelectSeq(dict_documents,
                      LAMBDA d : d.metadata.has_scene_id
                                 /\ d.metadata.text_type \in {"dialog", "description"})
        ids == {docs_with_scene_id[i].metadata.scene_id :
                  i \in 1..Len(docs_with_scene_id)}
    IN  IF ids = {} THEN <<>>
        ELSE SceneChunksFrom(docs_with_scene_id, Min(ids), Max(ids))

\* variant: the lines without scene_id are not filtered out
load_documents_keeps_untagged(base_documents) ==
    LET dict_documents == AssignScenes(base_documents, 0, <<>>)
        docs_with_scene_id ==
            SelectSeq(dict_documents,
                      LAMBDA d : d.metadata.text_type # "location")
        ids == {docs_with_scene_id[i].metadata.scene_id :
                  i \in 1..Len(docs_with_scene_id)}
    IN  IF ids = {} THEN <<>>
        ELSE SceneChunksFrom(docs_with_scene_id, Min(ids), Max(ids))

load_documents(base_documents) ==
    LET dict_documents == AssignScenes(base_documents, 0, <<>>)
        docs_with_scene_id ==
            SelectSeq(dict_documents,
                      LAMBDA d : d.metadata.has_scene_id
                                 /\ d.metadata.text_type # "location")
        ids == {docs_with_scene_id[i].metadata.scene_id :
                  i \in 1..Len(docs_with_scene_id)}
    IN  IF ids = {} THEN <<>>
        ELSE SceneChunksFrom(docs_with_scene_id, Min(ids), Max(ids))

-----------------------------------------------------------------------------
(* Inputs of the pipeline: short documents over a pool of script lines *)

MaxLines == 3     \* physical lines of an enumerated document

Str_OperatorsStation == <<"O","P","E","R","A","T","O","R","'","S"," ","S","T","A","T","I","O","N">>
Str_Trinity == <<"T","R","I","N","I","T","Y">>
Str_TrinityVO == <<"T","R","I","N","I","T","Y"," ","(","V",".","O",".",")">>
Str_StatusReport == <<"S","t","a","t","u","s"," ","r","e","p","o","r","t",".">>
Str_TrinityStatusReport == <<"T","R","I","N","I","T","Y",":"," ","S","t","a","t","u","s"," ","r","e","p","o","r","t",".">>
Str_Rain == <<"R","a","i","n"," ","f","a","l","l","s",".">>

Line_Location == <<"1">> \o Spaces(10) \o Str_OperatorsStation \o <<" ", " ", "1">>
Line_BareLocation == Spaces(11) \o Str_OperatorsStation
Line_Character == Spaces(32) \o Str_Trinity
Line_CharacterVO == Spaces(32) \o Str_TrinityVO
Line_Dialog == Spaces(20) \o Str_StatusReport
Line_Description == Spaces(8) \o Str_Rain

LinePool == {Line_Location, Line_BareLocation, Line_Character, Line_CharacterVO,
             Line_Dialog, Line_Description}

RECURSIVE DocumentsUpTo(_)
DocumentsUpTo(n) ==
    IF n = 0 THEN {<<>>}
    ELSE LET shorter == DocumentsUpTo(n - 1)
         IN  shorter \cup {Append(d, l) : d \in shorter, l \in LinePool}

\* a document is laid out on two pages, numbered 0 and 1 as pypdf does
Paged(doc, break) ==
    << [page_number |-> {0}, lines |-> SubSeq(doc, 1, break)],
       [page_number |-> {1}, lines |-> SubSeq(doc, break + 1, Len(doc))] >>

Readers ==
    UNION {{Paged(doc, break) : break \in 0..Len(doc)} :
             doc \in DocumentsUpTo(MaxLines)}

\* a scene heading followed by one uppercase line of the enumerated lines
CueReaders == {Paged(<<Line_Location, l>>, 0) : l \in {x \in Lines : isupper(x)}}

InitConfig ==
    /\ location_margins = {3, 11}
    /\ character_margins = {3, 32}
    /\ dialog_margins = {2, 20}
    /\ ignoread_tags \in TagLists
    /\ end_page = {}

InitRun ==
    /\ line_text = <<>>
    /\ page_number = 0
    /\ result = None
    /\ page = NoPage
    /\ page_outcome = NoOutcome
    /\ documents = <<>>
    /\ scene_chunks = <<>>
    /\ NoRequest
    /\ pc = "load"

Init ==
    /\ InitConfig
    /\ InitRun
    /\ \/ /\ description_margins \in {{8}, {2, 3, 8, 11, 20, 32}}
          /\ start_page \in {{}, {1}}
          /\ reader_pages \in Readers
       \/ /\ description_margins = {8}
          /\ start_page = {1}
          /\ reader_pages \in CueReaders

\* base_documents = self.loader.load(); a LineItem that fails validation
\* raises out of load and of load_documents
Load ==
    /\ pc = "load"
    /\ IF Raised(LineItems)
       THEN /\ pc' = "raised"
            /\ documents' = <<>>
       ELSE /\ pc' = "aggregate"
            /\ documents' = load
    /\ UNCHANGED rag_vars
    /\ UNCHANGED <<config_vars, reader_pages, line_text, page_number, result,
                   page, page_outcome, scene_chunks>>

\* the rest of load_documents
LoadDocuments ==
    /\ pc = "aggregate"
    /\ scene_chunks' = load_documents(documents)
    /\ pc' = "done"
    /\ UNCHANGED rag_vars
    /\ UNCHANGED <<config_vars, reader_pages, line_text, page_number, result,
                   page, page_outcome, documents>>

Next == Load \/ LoadDocuments

Spec == Init /\ [][Next]_vars

-----------------------------------------------------------------------------
(* Specification of the page driver: any page, any page window *)

\* self.start_page, self.end_page: None or an integer
PageBounds == {{}, {0}, {1}, {2}}

\* page.page_number: None or the index of the page in its document
PageNumbersOfPage == {{}, {0}, {1}, {2}, {3}}

Line_Blank == Spaces(4)
Line_Tagged == Spaces(8) \o <<")", "(">>

PageLinePool == {Line_Dialog, Line_Description, Line_Blank, Line_Tagged}

RECURSIVE PageLinesUpTo(_)
PageLinesUpTo(n) ==
    IF n = 0 THEN {<<>>}
    ELSE LET shorter == PageLinesUpTo(n - 1)
         IN  shorter \cup {Append(d, l) : d \in shorter, l \in PageLinePool}

InitPage ==
    /\ location_margins = {3, 11}
    /\ character_margins = {3, 32}
    /\ dialog_margins = {2, 20}
    /\ description_margins = {8}
    /\ ignoread_tags \in TagLists
    /\ start_page \in PageBounds
    /\ end_page \in PageBounds
    /\ line_text = <<>>
    /\ page_number = 0
    /\ result = None
    /\ reader_pages = <<>>
    /\ page = NoPage
    /\ page_outcome = NoOutcome
    /\ documents = <<>>
    /\ scene_chunks = <<>>
    /\ NoRequest
    /\ pc = "page"

\* one call of parse_page
ParsePage ==
    /\ pc = "page"
    /\ \E pn \in PageNumbersOfPage, lines \in PageLinesUpTo(MaxLines) :
         LET pg == [page_number |-> pn, lines |-> lines]
             outcome == parse_page(pg)
         IN  /\ page' = pg
             /\ page_outcome' =
                   IF Raised(outcome.items)
                   THEN [raised |-> TRUE, extracted |-> outcome.extracted,
                         items |-> <<>>]
                   ELSE [raised |-> FALSE, extracted |-> outcome.extracted,
                         items |-> outcome.items]
    /\ pc' = "page_parsed"
    /\ UNCHANGED rag_vars
    /\ UNCHANGED <<config_vars, line_text, page_number, result, reader_pages,
                   documents, scene_chunks>>

NextPage == ParsePage

SpecPage == InitPage /\ [][NextPage]_vars

-----------------------------------------------------------------------------
(* Specification of the aggregation: scripts of several scenes over two pages *)

MaxDocs == 4      \* physical lines of an enumerated script

Str_Lab == <<"L","A","B">>
Str_Roof == <<"R","O","O","F">>
Str_Neo == <<"N","E","O">>
Str_Run == <<"R","u","n",".">>

\* script lines at the margins of InitConfig: two scene headings between
\* their scene numbers, two character cues, a dialog line, a description line
Line_Lab == <<"1">> \o Spaces(2) \o Str_Lab \o <<" ", " ", "1">>
Line_Roof == <<"2">> \o Spaces(2) \o Str_Roof \o <<" ", " ", "2">>
Line_Neo == Spaces(3) \o Str_Neo
Line_Trinity == Spaces(3) \o Str_Trinity
Line_Run == Spaces(2) \o Str_Run

ScriptLinePool == {Line_Lab, Line_Roof, Line_Neo, Line_Trinity, Line_Run,
                   Line_Description}

RECURSIVE ScriptsUpTo(_)
ScriptsUpTo(n) ==
    IF n = 0 THEN {<<>>}
    ELSE LET shorter == ScriptsUpTo(n - 1)
         IN  shorter \cup {Append(d, l) : d \in shorter, l \in ScriptLinePool}

\* a script is laid out on the pages numbered 1 and 2
PagedScript(doc, break) ==
    << [page_number |-> {1}, lines |-> SubSeq(doc, 1, break)],
       [page_number |-> {2}, lines |-> SubSeq(doc, break + 1, Len(doc))] >>

InitScenes ==
    /\ InitConfig
    /\ InitRun
    /\ description_margins = {8}
    /\ start_page = {1}
    /\ \E doc \in ScriptsUpTo(MaxDocs) :
         \E break \in 0..Len(doc) : reader_pages = PagedScript(doc, break)

SpecScenes == InitScenes /\ [][Next]_vars

-----------------------------------------------------------------------------
(* Specification of the aggregation as a function of the list the loader
   returned: line items of every text_type that LineItem admits *)

Str_Note == <<"N","o","t","e",".">>

\* LineItem.text_type: Literal["location", "description", "character",
\* "dialog", "raw"], each with a text
LineItemPool ==
    { [text_type |-> "location", text |-> Str_Lab],
      [text_type |-> "character", text |-> Str_Neo],
      [text_type |-> "dialog", text |-> Str_Run],
      [text_type |-> "description", text |-> Str_Rain],
      [text_type |-> "raw", text |-> Str_Note] }

RECURSIVE LineItemsUpTo(_)
LineItemsUpTo(n) ==
    IF n = 0 THEN {<<>>}
    ELSE LET shorter == LineItemsUpTo(n - 1)
         IN  shorter \cup {Append(d, l) : d \in shorter, l \in LineItemPool}

\* the documents load builds from line items, the first `break` of them on
\* page 1 and the others on page 2
DocumentsOf(items, break) ==
    [i \in 1..Len(items) |->
        Document(items[i].text,
                 [text_type |-> items[i].text_type,
                  page_number |-> IF i <= break THEN 1 ELSE 2])]

InitAggregate ==
    /\ InitConfig
    /\ description_margins = {8}
    /\ start_page = {1}
    /\ line_text = <<>>
    /\ page_number = 0
    /\ result = None
    /\ reader_pages = <<>>
    /\ page = NoPage
    /\ page_outcome = NoOutcome
    /\ \E items \in LineItemsUpTo(MaxDocs) :
         \E break \in 0..Len(items) : documents = DocumentsOf(items, break)
    /\ scene_chunks = <<>>
    /\ NoRequest
    /\ pc = "aggregate"

NextAggregate == LoadDocuments

SpecAggregate == InitAggregate /\ [][NextAggregate]_vars

\* the physical lines of the pages inside the page window, in reader order
ReadLines ==
    flatten([i \in 1..Len(reader_pages) |->
                IF parse_page([page_number |-> reader_pages[i].page_number,
                               lines |-> <<>>]).extracted
                THEN reader_pages[i].lines ELSE <<>>])

-----------------------------------------------------------------------------
(* Properties of the classifier, checked under SpecLine *)

Parsed == pc = "parsed"

Ignored == \E k \in 1..Len(ignoread_tags) : Contains(line_text, ignoread_tags[k])

IsItem == result.status = "LineItem"

LocationRule == Truthy(_get_location_text(line_text))
CharacterRule == Truthy(_get_character_text(line_text))
DialogRule == Truthy(_get_dialog_text(line_text))
DescriptionRule == Truthy(_get_description_text(line_text))

NoRule == ~LocationRule /\ ~CharacterRule /\ ~DialogRule /\ ~DescriptionRule

\* the number of leading spaces of the line
LeadingSpaces == LeadingWs(line_text)

\* what follows the leading spaces, trimmed
TrimmedBody == strip(SubSeq(line_text, LeadingSpaces + 1, Len(line_text)))

Item(text_type, text, margin) ==
    [status |-> "LineItem", page_number |-> page_number, text_type |-> text_type,
     text |-> text, margin |-> margin]

\* C1 (as amended): the rules are tried in the order location, character,
\* dialog, description and the first one that yields a text wins; a line with
\* at least two leading spaces whose count is in both dialog_margins and
\* description_margins is never emitted as description: it is emitted as
\* dialog unless the character rule took it first.
C1_FirstMatchWins ==
    (Parsed /\ ~Ignored) =>
        /\ LocationRule => result.text_type = "location"
        /\ (~LocationRule /\ CharacterRule) => result.text_type = "character"
        /\ (~LocationRule /\ ~CharacterRule /\ DialogRule) =>
               result.text_type = "dialog"
        /\ (~LocationRule /\ ~CharacterRule /\ ~DialogRule /\ DescriptionRule) =>
               /\ result.text_type = "description"
               /\ result.margin = LeadingSpaces
        /\ (/\ LeadingSpaces >= 2
            /\ LeadingSpaces \in dialog_margins \cap description_margins
            /\ IsItem) =>
               /\ result.text_type # "description"
               /\ ~CharacterRule => result.text_type = "dialog"

C1_Witness ==
    /\ Parsed /\ ~Ignored
    /\ ~LocationRule /\ ~CharacterRule /\ DialogRule /\ DescriptionRule
    /\ result.text_type = "dialog"

\* C1 as stated: whatever the configuration, a line whose leading-space count
\* is in both dialog_margins and description_margins is never emitted as
\* description.
C1_Original ==
    (/\ Parsed /\ ~Ignored
     /\ LeadingSpaces \in dialog_margins \cap description_margins
     /\ IsItem) =>
        result.text_type # "description"

\* C2 (as amended): the margin of every emitted item is a member of the margin
\* set of its text_type, except for the fallback item, which is tagged
\* description (no item is ever tagged raw) and carries the sentinel margin 1.
C2_MarginInConfiguredSet ==
    (Parsed /\ IsItem) =>
        \/ result.text_type = "location" /\ result.margin \in location_margins
        \/ result.text_type = "character" /\ result.margin \in character_margins
        \/ result.text_type = "dialog" /\ result.margin \in dialog_margins
        \/ result.text_type = "description" /\ result.margin \in description_margins
        \/ /\ result.text_type = "description"
           /\ result.margin = 1
           /\ NoRule
           /\ result.text = strip(line_text)

C2_Witness ==
    /\ Parsed /\ IsItem
    /\ result.text_type = "description"
    /\ result.margin = 1
    /\ 1 \notin description_margins

\* C2 as stated: only an item of text_type raw may carry a margin outside the
\* margin set of its text_type.
C2_Original ==
    (Parsed /\ IsItem /\ result.text_type # "raw") =>
        \/ result.text_type = "location" /\ result.margin \in location_margins
        \/ result.text_type = "character" /\ result.margin \in character_margins
        \/ result.text_type = "dialog" /\ result.margin \in dialog_margins
        \/ result.text_type = "description" /\ result.margin \in description_margins

\* C3 (as amended): a line without ignore tag that no rule classifies and that
\* is not blank is emitted with text_type description, margin 1 and the
\* trimmed line as text.
C3_Fallback ==
    (Parsed /\ ~Ignored /\ NoRule /\ Len(strip(line_text)) > 0) =>
        result = Item("description", strip(line_text), 1)

C3_Witness ==
    /\ Parsed /\ ~Ignored /\ NoRule
    /\ Len(strip(line_text)) > 0
    /\ Len(strip(line_text)) < Len(line_text)
    /\ IsItem

\* C3 as stated: the fallback item has text_type raw.
C3_Original ==
    (Parsed /\ ~Ignored /\ NoRule /\ Len(strip(line_text)) > 0) =>
        result = Item("raw", strip(line_text), 1)

\* C4 (as amended): a line without ignore tag that is not blank after trimming
\* yields exactly one LineItem, also when the rule matching its margin left an
\* empty text.
C4_ExactlyOneItem ==
    (Parsed /\ ~Ignored /\ Len(strip(line_text)) > 0) => IsItem

\* a character-margin line that is only a parenthetical
C4_Witness ==
    /\ Parsed /\ ~Ignored
    /\ _get_character_text(line_text).matched
    /\ _get_character_text(line_text).text = <<>>
    /\ IsItem

\* C4 as stated: every non-empty line without ignore tag yields a LineItem.
C4_Original ==
    (Parsed /\ ~Ignored /\ Len(line_text) > 0) => IsItem

\* C5: for a valid page number the outcome is None or a LineItem meeting the
\* model constraints; a rule that matches the margin and leaves an empty text
\* raises no validation error.
C5_NeverRaises ==
    Parsed =>
        /\ result.status \in {"None", "LineItem"}
        /\ IsItem => (Len(result.text) >= 1 /\ result.margin >= 1
                      /\ result.page_number = page_number)

\* a location line whose middle group is empty
C5_Witness ==
    /\ Parsed /\ ~Ignored
    /\ _get_location_text(line_text).matched
    /\ _get_location_text(line_text).text = <<>>
    /\ result.status # "ValidationError"

\* C6: a line containing a configured ignore tag yields None, whatever else
\* it contains.
C6_IgnoreTagDiscards ==
    (Parsed /\ Ignored) => result = None

\* a line holding the second tag that the dialog rule would have taken
C6_Witness ==
    /\ Parsed
    /\ Contains(line_text, ignoread_tags[2])
    /\ ~Contains(line_text, ignoread_tags[1])
    /\ DialogRule
    /\ result = None

\* C7 (as amended): no rule classifies a line whose margin is outside its set,
\* and an uppercase line with at least two leading spaces whose count is in
\* neither location_margins nor character_margins is emitted as dialog when the
\* count is in dialog_margins, else as description when it is in
\* description_margins, and as the fallback item only when it is in neither.
C7_FallsThroughOnMargin ==
    Parsed =>
        /\ (IsItem /\ result.text_type = "location") =>
               result.margin \in location_margins
        /\ (IsItem /\ result.text_type = "character") =>
               LeadingSpaces \in character_margins
        /\ (/\ ~Ignored /\ isupper(line_text) /\ LeadingSpaces >= 2
            /\ LeadingSpaces \notin location_margins \cup character_margins) =>
               IF LeadingSpaces \in dialog_margins
               THEN result = Item("dialog", TrimmedBody, LeadingSpaces)
               ELSE IF LeadingSpaces \in description_margins
               THEN result = Item("description", TrimmedBody, LeadingSpaces)
               ELSE result = Item("description", strip(line_text), 1)

C7_Witness ==
    /\ Parsed /\ ~Ignored /\ isupper(line_text) /\ LeadingSpaces >= 2
    /\ LeadingSpaces \notin location_margins \cup character_margins
    /\ LeadingSpaces \in description_margins \ dialog_margins
    /\ result.text_type = "description"
    /\ result.margin = LeadingSpaces

\* C7 as stated: an uppercase line whose leading-space count is in neither
\* location_margins nor character_margins becomes the fallback item only if
\* the count is in none of the four sets.
C7_Original ==
    (/\ Parsed /\ ~Ignored /\ isupper(line_text)
     /\ LeadingSpaces \notin location_margins \cup character_margins
     /\ IsItem /\ NoRule) =>
        LeadingSpaces \notin dialog_margins \cup description_margins

\* the scene-number token the line starts with: everything before the first
\* whitespace character
LeftTokenLen ==
    IF \A i \in 1..Len(line_text) : line_text[i] \notin Whitespace
    THEN Len(line_text)
    ELSE (CHOOSE i \in 1..Len(line_text) :
            /\ line_text[i] \in Whitespace
            /\ \A j \in 1..(i-1) : line_text[j] \notin Whitespace) - 1

\* the whitespace run that follows that token
LeftWhitespaceRun ==
    LeadingWs(SubSeq(line_text, LeftTokenLen + 1, Len(line_text)))

\* C8 (as amended): the margin of a location item is the length of the left
\* scene number together with the whitespace run that follows it, it is a
\* member of location_margins, and the text is what lies between that run and
\* the right scene-number bracket, trimmed.
C8_LocationMarginAndText ==
    (Parsed /\ IsItem /\ result.text_type = "location") =>
        /\ result.margin = LeftTokenLen + LeftWhitespaceRun
        /\ LeftTokenLen >= 1
        /\ LeftWhitespaceRun >= 2
        /\ result.margin \in location_margins
        /\ \E e \in result.margin..Len(line_text) :
              /\ IsRightBracket(SubSeq(line_text, e + 1, Len(line_text)))
              /\ result.text = strip(SubSeq(line_text, result.margin + 1, e))

C8_Witness ==
    /\ Parsed /\ IsItem /\ result.text_type = "location"
    /\ LeftTokenLen = 2
    /\ Len(result.text) = MaxBody

\* C8 as stated: the margin of a location item is the length of the line's
\* left whitespace run.
C8_Original ==
    (Parsed /\ IsItem /\ result.text_type = "location") =>
        result.margin = LeftWhitespaceRun

-----------------------------------------------------------------------------
(* Properties of the pipeline, checked under Spec *)

Scenario1 == <<Line_Location, Line_Character, Line_Dialog>>

Scenario1AsWritten == <<Line_BareLocation, Line_Character, Line_Dialog>>

Scenario1Outcome ==
    /\ Len(documents) = 3
    /\ documents[1].metadata.text_type = "location"
    /\ documents[2].metadata.text_type = "character"
    /\ documents[3].metadata.text_type = "dialog"
    /\ Len(scene_chunks) = 1
    /\ scene_chunks[1].metadata.location = Str_OperatorsStation
    /\ scene_chunks[1].metadata.characters = <<Str_Trinity>>
    /\ Contains(scene_chunks[1].text, Str_TrinityStatusReport)

\* C9 (as amended): with 11 in location_margins, 32 in character_margins and
\* 20 in dialog_margins, the lines "1" + 10 spaces + "OPERATOR'S STATION" +
\* 2 spaces + "1" (a heading between its scene numbers, margin 11), "TRINITY"
\* at margin 32 and "Status report." at margin 20 are classified location,
\* character, dialog and give exactly one scene with location "OPERATOR'S
\* STATION", characters {"TRINITY"} and a text containing
\* "TRINITY: Status report.".
C9_Scenario1 ==
    (/\ pc = "done"
     /\ ReadLines = Scenario1
     /\ 11 \in location_margins /\ 32 \in character_margins
     /\ 20 \in dialog_margins) =>
        Scenario1Outcome

C9_Witness ==
    /\ pc = "done"
    /\ ReadLines = Scenario1
    /\ Len(scene_chunks) = 1
    /\ Contains(scene_chunks[1].text, Str_TrinityStatusReport)

\* C9 as stated: the heading is the bare line "OPERATOR'S STATION" behind 11
\* spaces.
C9_Original ==
    (/\ pc = "done"
     /\ ReadLines = Scenario1AsWritten
     /\ 11 \in location_margins /\ 32 \in character_margins
     /\ 20 \in dialog_margins) =>
        Scenario1Outcome

\* no "(" of the text has a ")" after it
NoParenthetical(text) ==
    ~ \E i \in 1..Len(text), j \in 1..Len(text) :
          i < j /\ text[i] = "(" /\ text[j] = ")"

\* line is NAME followed by one parenthetical that ends the line, behind a
\* character margin
NameOf(line) ==
    LET m == LeadingWs(line)
        body == SubSeq(line, m + 1, Len(line))
        open == CHOOSE k \in 1..Len(body) : body[k] = "("
    IN  strip(SubSeq(body, 1, open - 1))

IsNameWithParenthetical(line) ==
    LET m == LeadingWs(line)
        body == SubSeq(line, m + 1, Len(line))
    IN  /\ isupper(line)
        /\ m >= 2 /\ m \in character_margins
        /\ ~ \E k \in 1..Len(ignoread_tags) : Contains(line, ignoread_tags[k])
        /\ Len(body) >= 3
        /\ body[Len(body)] = ")"
        /\ Cardinality({k \in 1..Len(body) : body[k] = "("}) = 1
        /\ Cardinality({k \in 1..Len(body) : body[k] = ")"}) = 1
        /\ body[1] \in Upper

\* C10: the text of a character item is trimmed and holds no parenthetical;
\* NAME followed by a parenthetical is emitted as NAME; no name of a scene's
\* roster holds a parenthetical.
C10_CharacterWithoutParenthetical ==
    /\ pc \in {"aggregate", "done"} =>
          /\ \A i \in 1..Len(documents) :
                documents[i].metadata.text_type = "character" =>
                    /\ NoParenthetical(documents[i].text)
                    /\ strip(documents[i].text) = documents[i].text
          /\ (/\ Len(ReadLines) = 2
              /\ ReadLines[1] = Line_Location
              /\ IsNameWithParenthetical(ReadLines[2])) =>
                 /\ Len(documents) = 2
                 /\ documents[2].metadata.text_type = "character"
                 /\ documents[2].text = NameOf(ReadLines[2])
    /\ pc = "done" =>
          \A k \in 1..Len(scene_chunks) :
              \A n \in 1..Len(scene_chunks[k].metadata.characters) :
                  NoParenthetical(scene_chunks[k].metadata.characters[n])

C10_Witness ==
    /\ pc = "done"
    /\ ReadLines = <<Line_Location, Line_CharacterVO>>
    /\ Len(scene_chunks) = 1
    /\ scene_chunks[1].metadata.characters = <<Str_Trinity>>

-----------------------------------------------------------------------------
(* Properties of the page driver, checked under SpecPage and Spec *)

PageParsed == pc = "page_parsed"

BelowStartPage == \E v \in start_page, n \in page.page_number : n < v

AboveEndPage == \E v \in end_page, n \in page.page_number : n > v

\* the call returned [] without reaching extract_text
SkippedPage ==
    /\ ~page_outcome.raised
    /\ ~page_outcome.extracted
    /\ page_outcome.items = <<>>

\* C11: parse_page returns the empty list without extracting anything exactly
\* when the page number is below a set start_page or above a set end_page; an
\* unset bound excludes no page and a set bound, 0 included, is enforced.
C11_Original ==
    (PageParsed /\ page.page_number # {}) =>
        (SkippedPage <=> (BelowStartPage \/ AboveEndPage))

\* the page of each line of ReadLines
ReadLinePages ==
    flatten([i \in 1..Len(reader_pages) |->
                IF parse_page([page_number |-> reader_pages[i].page_number,
                               lines |-> <<>>]).extracted
                THEN [k \in 1..Len(reader_pages[i].lines) |->
                         CHOOSE n \in reader_pages[i].page_number : TRUE]
                ELSE <<>>])

\* C12: load returns the kept lines in document order: the i-th document is
\* the i-th physical line (of the pages inside the window, in reader order,
\* top to bottom) that is not discarded, with that line's page number, so of
\* two kept lines the earlier one comes first.
C12_DocumentOrder ==
    pc = "aggregate" =>
        LET lines == ReadLines
            pages == ReadLinePages
            item == [i \in 1..Len(lines) |-> _parse_page_line(lines[i], 0)]
            kept == {i \in 1..Len(lines) : item[i] # None}
            pos(i) == CHOOSE k \in kept : Cardinality({j \in kept : j <= k}) = i
        IN  /\ Len(documents) = Cardinality(kept)
            /\ \A i \in 1..Len(documents) :
                  /\ documents[i].text = item[pos(i)].text
                  /\ documents[i].metadata.text_type = item[pos(i)].text_type
                  /\ documents[i].metadata.page_number = pages[pos(i)]
            /\ \A i \in 1..Len(documents), j \in 1..Len(documents) :
                  i < j => documents[i].metadata.page_number
                             <= documents[j].metadata.page_number

\* three different kept lines over two pages
C12_Witness ==
    /\ pc = "aggregate"
    /\ Len(documents) = 3
    /\ documents[1].metadata.page_number = 0
    /\ documents[3].metadata.page_number = 1
    /\ documents[1].text # documents[2].text
    /\ documents[2].text # documents[3].text
    /\ documents[1].text # documents[3].text

\* C13: a page whose page number is None makes parse_page raise, whatever
\* start_page, end_page and the page content; no list is returned for it.
C13_Original ==
    (PageParsed /\ page.page_number = {}) => page_outcome.raised

-----------------------------------------------------------------------------
(* Properties of the aggregation, checked under SpecScenes *)

Done == pc = "done"

IsLocationDoc(i) == documents[i].metadata.text_type = "location"

\* the number of location lines among the first i line items
SceneOf(i) == Cardinality({j \in 1..i : IsLocationDoc(j)})

NumScenes == SceneOf(Len(documents))

\* the location line that opens scene k
HeadingOf(k) ==
    CHOOSE i \in 1..Len(documents) : IsLocationDoc(i) /\ SceneOf(i) = k

\* the line items between the k-th location line and the next one
Segment(k) ==
    {i \in 1..Len(documents) : SceneOf(i) = k /\ ~IsLocationDoc(i)}

\* the members of a set of indices, in increasing order
RECURSIVE InOrder(_)
InOrder(S) ==
    IF S = {} THEN <<>> ELSE <<Min(S)>> \o InOrder(S \ {Min(S)})

\* the dialog, description and raw line items of scene k, in document order
TextLinesOf(k) ==
    InOrder({i \in Segment(k) :
               documents[i].metadata.text_type \in {"dialog", "description", "raw"}})

ChunksOf(k) ==
    {c \in 1..Len(scene_chunks) : scene_chunks[c].metadata.scene_number = k}

\* str.split("\n")
RECURSIVE SplitLines(_)
SplitLines(text) ==
    IF \A i \in 1..Len(text) : text[i] # "\n" THEN <<text>>
    ELSE LET i == Min({j \in 1..Len(text) : text[j] = "\n"})
         IN  <<SubSeq(text, 1, i - 1)>> \o SplitLines(SubSeq(text, i + 1, Len(text)))

\* the lines of a chunk's text below its "Location: ..." header
BodyLines(c) == Tail(SplitLines(scene_chunks[c].text))

EndsWith(line, suffix) ==
    /\ Len(suffix) <= Len(line)
    /\ SubSeq(line, Len(line) - Len(suffix) + 1, Len(line)) = suffix

\* C14: the k-th location line opens scene k, also when its text repeats an
\* earlier location; the chunks come in increasing scene_number order, each
\* scene with lines of its own has its own chunk, under the number and the
\* text of its location line, and no chunk stands for two scenes.
C14_SceneMonotonicity ==
    Done =>
        /\ \A c \in 1..(Len(scene_chunks) - 1) :
              scene_chunks[c].metadata.scene_number
                < scene_chunks[c + 1].metadata.scene_number
        /\ \A c \in 1..Len(scene_chunks) :
              LET k == scene_chunks[c].metadata.scene_number
              IN  /\ k \in 1..NumScenes
                  /\ Segment(k) # {}
                  /\ scene_chunks[c].metadata.location = documents[HeadingOf(k)].text
                  /\ Len(BodyLines(c)) = Len(TextLinesOf(k))
        /\ \A k \in 1..NumScenes : Segment(k) # {} => ChunksOf(k) # {}

\* two scenes at the same location
C14_Witness ==
    /\ Done
    /\ Len(scene_chunks) = 2
    /\ scene_chunks[1].metadata.location = scene_chunks[2].metadata.location
    /\ scene_chunks[1].metadata.scene_number = 1
    /\ scene_chunks[2].metadata.scene_number = 2

\* C15: every dialog, description or raw line item after the first location
\* line is in exactly one chunk, the one of the most recent location line,
\* and exactly once in its text: the body of that chunk is one line per such
\* item of the scene, in order, each ending with ": " and the item's text.
C15_Coverage ==
    Done =>
        \A k \in 1..NumScenes :
            LET lines == TextLinesOf(k)
            IN  lines # <<>> =>
                  /\ Cardinality(ChunksOf(k)) = 1
                  /\ \A c \in ChunksOf(k) :
                        /\ Len(BodyLines(c)) = Len(lines)
                        /\ \A j \in 1..Len(lines) :
                              EndsWith(BodyLines(c)[j],
                                       Str_ColonSpace \o documents[lines[j]].text)

\* two scenes with a dialog line and a description line between them
C15_Witness ==
    /\ Done
    /\ Len(scene_chunks) = 2
    /\ Len(BodyLines(1)) >= 1
    /\ Len(BodyLines(2)) >= 1
    /\ \E i \in 1..Len(documents) : documents[i].metadata.text_type = "dialog"
    /\ \E i \in 1..Len(documents) : documents[i].metadata.text_type = "description"

\* the line items before the first location line left out
WithoutPrologue ==
    SubSeq(documents, Cardinality({i \in 1..Len(documents) : SceneOf(i) = 0}) + 1,
           Len(documents))

\* C16: the lines before the first location line are in no scene: no chunk
\* has scene_number 0, and text, roster and page range of every chunk are
\* those of the lines from its location line on, so the chunks are the ones
\* the script gives without those lines.
C16_PrologueDropped ==
    Done =>
        /\ \A c \in 1..Len(scene_chunks) :
              LET k == scene_chunks[c].metadata.scene_number
              IN  /\ k >= 1
                  /\ Len(BodyLines(c)) = Len(TextLinesOf(k))
                  /\ \A n \in 1..Len(scene_chunks[c].metadata.characters) :
                        \E i \in Segment(k) :
                            /\ documents[i].metadata.text_type = "character"
                            /\ upper(documents[i].text)
                                 = scene_chunks[c].metadata.characters[n]
                  /\ \E i \in Segment(k) :
                        scene_chunks[c].metadata.page_start
                          = documents[i].metadata.page_number
                  /\ \E i \in Segment(k) :
                        scene_chunks[c].metadata.page_end
                          = documents[i].metadata.page_number
        /\ scene_chunks = load_documents(WithoutPrologue)

\* a cue and a dialog line on page 1 before the first location line, which
\* opens a scene with another cue on page 2
C16_Witness ==
    /\ Done
    /\ Len(documents) >= 4
    /\ documents[1].metadata.text_type = "character"
    /\ documents[1].metadata.page_number = 1
    /\ documents[2].metadata.text_type = "dialog"
    /\ IsLocationDoc(3)
    /\ documents[4].metadata.text_type = "character"
    /\ documents[4].text # documents[1].text
    /\ documents[4].metadata.page_number = 2
    /\ Len(scene_chunks) = 1
    /\ scene_chunks[1].metadata.characters = <<documents[4].text>>
    /\ scene_chunks[1].metadata.page_start = 2

\* C17: load_documents returns the empty list, and raises nothing, when the
\* loader yields no line item and when it yields none that is a location.
C17_NoLocationNoScenes ==
    /\ pc # "raised"
    /\ (Done /\ NumScenes = 0) => scene_chunks = <<>>

\* a script of cues, dialog and description without any location line
C17_Witness ==
    /\ Done
    /\ Len(documents) >= 3
    /\ NumScenes = 0
    /\ \E i \in 1..Len(documents) : documents[i].metadata.text_type = "character"
    /\ \E i \in 1..Len(documents) : documents[i].metadata.text_type = "dialog"
    /\ scene_chunks = <<>>

\* the uppercased texts of the character items of scene k
RosterOf(k) ==
    {upper(documents[i].text) :
       i \in {j \in Segment(k) : documents[j].metadata.text_type = "character"}}

\* C18: the characters of a chunk are the uppercased texts of the character
\* items between the scene's location line and the next one, each once, in
\* increasing order; a cue without dialog is among them and no name of
\* another scene is.
C18_CharacterRoster ==
    Done =>
        \A c \in 1..Len(scene_chunks) :
            LET names == scene_chunks[c].metadata.characters
            IN  /\ {names[n] : n \in 1..Len(names)}
                     = RosterOf(scene_chunks[c].metadata.scene_number)
                /\ \A n \in 1..(Len(names) - 1) : StrLess(names[n], names[n + 1])

\* a scene whose cues are TRINITY, NEO, NEO, none of them followed by dialog
C18_Witness ==
    /\ Done
    /\ Len(documents) >= 4
    /\ IsLocationDoc(1)
    /\ documents[2].text = Str_Trinity
    /\ documents[3].text = Str_Neo
    /\ documents[4].text = Str_Neo
    /\ Len(scene_chunks) >= 1
    /\ scene_chunks[1].metadata.characters = <<Str_Neo, Str_Trinity>>

\* the text of the most recent character item before item i, anywhere in the
\* document, or 'Unknown'
SpeakerAcrossScan(i) ==
    LET cues == {j \in 1..(i - 1) : documents[j].metadata.text_type = "character"}
    IN  IF cues = {} THEN Str_Unknown ELSE documents[Max(cues)].text

\* C19: a dialog line is written as "<current_character>: <text>" where
\* current_character is the most recent character line before it anywhere in
\* the document (a location line does not reset it) and 'Unknown' only when
\* there was none yet.
C19_Original ==
    Done =>
        \A k \in 1..NumScenes : \A c \in ChunksOf(k) :
            LET lines == TextLinesOf(k)
            IN  \A j \in 1..Len(lines) :
                  documents[lines[j]].metadata.text_type = "dialog" =>
                      /\ j <= Len(BodyLines(c))
                      /\ BodyLines(c)[j]
                           = SpeakerAcrossScan(lines[j]) \o Str_ColonSpace
                               \o documents[lines[j]].text

\* the page numbers of the lines of scene k, its location line included
PagesOfScene(k) ==
    {documents[i].metadata.page_number : i \in Segment(k) \cup {HeadingOf(k)}}

\* C20: page_start and page_end of a chunk are the least and the greatest
\* page number over the lines of the scene, the location line that opened
\* it included.
C20_Original ==
    Done =>
        \A c \in 1..Len(scene_chunks) :
            LET k == scene_chunks[c].metadata.scene_number
            IN  /\ scene_chunks[c].metadata.page_start = Min(PagesOfScene(k))
                /\ scene_chunks[c].metadata.page_end = Max(PagesOfScene(k))

StartsWith(line, prefix) ==
    /\ Len(prefix) <= Len(line)
    /\ SubSeq(line, 1, Len(prefix)) = prefix

\* C21: the text of a chunk is the header "Location: <location>" of the
\* location line that opened the scene, then one line per dialog or
\* description item of the scene, in document order: a description item gives
\* "Scene description: <text>", a dialog item a line ending in ": <text>", and
\* location and character items give no line.
C21_TextInDocumentOrder ==
    Done =>
        \A c \in 1..Len(scene_chunks) :
            LET k == scene_chunks[c].metadata.scene_number
                lines == TextLinesOf(k)
                written == SplitLines(scene_chunks[c].text)
            IN  /\ written[1] = Str_Location \o documents[HeadingOf(k)].text
                /\ Len(written) = 1 + Len(lines)
                /\ \A j \in 1..Len(lines) :
                      IF documents[lines[j]].metadata.text_type = "description"
                      THEN written[j + 1]
                             = Str_SceneDescription \o documents[lines[j]].text
                      ELSE /\ EndsWith(written[j + 1],
                                       Str_ColonSpace \o documents[lines[j]].text)
                           /\ ~StartsWith(written[j + 1], Str_SceneDescription)

\* a scene whose description comes before a cue and its dialog line
C21_Witness ==
    /\ Done
    /\ Len(documents) >= 4
    /\ IsLocationDoc(1)
    /\ documents[2].metadata.text_type = "description"
    /\ documents[3].metadata.text_type = "character"
    /\ documents[4].metadata.text_type = "dialog"
    /\ Len(scene_chunks) = 1
    /\ Len(SplitLines(scene_chunks[1].text)) = 3

\* C23: of two consecutive location lines both count: the scene of the first
\* has no chunk, and the lines after the second are in a chunk whose
\* scene_number counts both location lines and whose location is the second.
C23_ConsecutiveLocations ==
    Done =>
        \A i \in 1..(Len(documents) - 1) :
            (IsLocationDoc(i) /\ IsLocationDoc(i + 1)) =>
                /\ ChunksOf(SceneOf(i)) = {}
                /\ SceneOf(i + 1) = SceneOf(i) + 1
                /\ Segment(SceneOf(i + 1)) # {} =>
                      \E c \in 1..Len(scene_chunks) :
                          /\ scene_chunks[c].metadata.scene_number = SceneOf(i) + 1
                          /\ scene_chunks[c].metadata.location = documents[i + 1].text

\* two headings in a row, then a line: the only chunk is scene 2
C23_Witness ==
    /\ Done
    /\ Len(documents) >= 3
    /\ IsLocationDoc(1)
    /\ IsLocationDoc(2)
    /\ ~IsLocationDoc(3)
    /\ Len(scene_chunks) = 1
    /\ scene_chunks[1].metadata.scene_number = 2

\* C24 (as amended): every record has page_content equal to text and a
\* metadata with exactly the fields scene_number, location, characters,
\* page_start, page_end, _id and _collection_name; location is the text of the
\* location line that opened the scene and scene_number its counter value.
C24_RecordShape ==
    Done =>
        \A c \in 1..Len(scene_chunks) :
            /\ DOMAIN scene_chunks[c] = {"text", "page_content", "metadata"}
            /\ scene_chunks[c].page_content = scene_chunks[c].text
            /\ DOMAIN scene_chunks[c].metadata
                 = {"scene_number", "location", "characters", "page_start",
                    "page_end", "_id", "_collection_name"}
            /\ scene_chunks[c].metadata._collection_name = QDRANT_COLLECTION
            /\ \E i \in 1..Len(documents) :
                  /\ IsLocationDoc(i)
                  /\ SceneOf(i) = scene_chunks[c].metadata.scene_number
                  /\ documents[i].text = scene_chunks[c].metadata.location

C24_Witness ==
    /\ Done
    /\ Len(scene_chunks) = 2
    /\ scene_chunks[1].metadata.location # scene_chunks[2].metadata.location
    /\ scene_chunks[2].page_content = scene_chunks[2].text

\* C24 as stated: the last two fields of the metadata are named id and
\* collection_name.
C24_Original ==
    Done =>
        \A c \in 1..Len(scene_chunks) :
            /\ scene_chunks[c].page_content = scene_chunks[c].text
            /\ DOMAIN scene_chunks[c].metadata
                 = {"scene_number", "location", "characters", "page_start",
                    "page_end", "id", "collection_name"}

\* C28: scene k has a chunk exactly when a character, dialog or description
\* item lies between the k-th location line and the next one (or the end);
\* a scene of character items only has a text that is its location header,
\* and page_start and page_end are never -1.
C28_ChunkIffSceneHasLines ==
    Done =>
        /\ \A k \in 1..NumScenes : (ChunksOf(k) # {}) <=> (Segment(k) # {})
        /\ \A c \in 1..Len(scene_chunks) :
              LET k == scene_chunks[c].metadata.scene_number
              IN  /\ k \in 1..NumScenes
                  /\ TextLinesOf(k) = <<>> =>
                        scene_chunks[c].text
                          = Str_Location \o documents[HeadingOf(k)].text
                  /\ scene_chunks[c].metadata.page_start # -1
                  /\ scene_chunks[c].metadata.page_end # -1

\* scene 1 without lines, scene 2 with a cue only: one chunk, numbered 2,
\* whose text is the header
C28_Witness ==
    /\ Done
    /\ Len(documents) = 3
    /\ IsLocationDoc(1)
    /\ IsLocationDoc(2)
    /\ documents[3].metadata.text_type = "character"
    /\ Len(scene_chunks) = 1
    /\ scene_chunks[1].metadata.scene_number = 2
    /\ Len(SplitLines(scene_chunks[1].text)) = 1

-----------------------------------------------------------------------------
(* Properties of the aggregation of any line items, checked under
   SpecAggregate *)

-----------------------------------------------------------------------------
(* RAGService (src/services/rag_service.py).  The loader, the retriever and
   the generator are the collaborators handed to __init__.  Every call made on
   one of them is recorded in `calls` with its arguments and with what it
   returned; what a collaborator returns is drawn from a small set.  An
   optional string is a set: {} is None, {s} is the string s. *)

MaxRetrieved == 2   \* documents a retrieval attempt returns

Call(name, args, returned) ==
    [name |-> name, args |-> args, returned |-> returned]

\* str.lower()
lower(s) ==
    [i \in 1..Len(s) |->
        IF s[i] \in Upper
        THEN LowerSeq[CHOOSE k \in 1..26 : UpperSeq[k] = s[i]]
        ELSE s[i]]

DigitSeq == <<"0","1","2","3","4","5","6","7","8","9">>

\* str(n) of a non-negative int, as an f-string formats it
RECURSIVE str(_)
str(n) ==
    IF n < 10 THEN <<DigitSeq[n + 1]>>
    ELSE str(n \div 10) \o <<DigitSeq[(n % 10) + 1]>>

\* truthiness of an Optional[str]
StrTruthy(o) == o # {} /\ o # {<<>>}

StrOf(o) == CHOOSE x \in o : TRUE

\* variant: indexes whatever is_initialized says
index_without_guard(initialized, loaded) ==
    << Call("is_initialized", <<>>, initialized),
       Call("load_documents", <<>>, loaded),
       Call("index_documents", <<loaded>>, "None") >>

\* RAGService.index: the calls it makes, given what is_initialized and
\* load_documents return
index(initialized, loaded) ==
    IF initialized
    THEN << Call("is_initialized", <<>>, initialized) >>
    ELSE << Call("is_initialized", <<>>, initialized),
            Call("load_documents", <<>>, loaded),
            Call("index_documents", <<loaded>>, "None") >>

Str_QUANTITATIVE == <<"Q","U","A","N","T","I","T","A","T","I","V","E">>
Str_QUALITATIVE == <<"Q","U","A","L","I","T","A","T","I","V","E">>

quantitative_indicators ==
    << <<"h","o","w"," ","m","a","n","y"," ","t","i","m","e","s">>,
       <<"h","o","w"," ","m","a","n","y">>,
       <<"c","o","u","n","t">>,
       <<"l","i","s","t"," ","a","l","l">>,
       <<"f","i","n","d"," ","e","v","e","r","y">> >>

_get_query_type(question) ==
    LET query_lower == lower(question)
    IN  IF \E k \in 1..Len(quantitative_indicators) :
               Contains(query_lower, quantitative_indicators[k])
        THEN Str_QUANTITATIVE
        ELSE Str_QUALITATIVE

\* must_conditions of the QUANTITATIVE branch
MustConditions(entities) ==
    IF StrTruthy(entities.character)
    THEN << [key |-> "characters", value |-> upper(StrOf(entities.character))] >>
    ELSE <<>>

\* variant: attempt B runs whenever attempt A returned nothing
QueryRetrieval_B_unconditional(question, top_k, env) ==
    IF _get_query_type(question) = Str_QUANTITATIVE
    THEN LET entities == env.entities
             must_conditions == MustConditions(entities)
             keywords == entities.keywords
             call_A == Call("filter_retrieve",
                            [must_conditions |-> must_conditions,
                             query_text |-> [list |-> keywords]], env.A)
             run_B == env.A = <<>>
             call_B == Call("filter_retrieve",
                            [must_conditions |-> must_conditions,
                             query_text |-> [str |-> <<>>]], env.B)
             after_B == IF run_B THEN env.B ELSE env.A
             run_C == after_B = <<>>
             call_C == Call("retrieve",
                            [query |-> question, top_k |-> top_k], env.C)
         IN  [calls |-> << Call("extraction_agent.run", <<question>>, entities),
                           call_A >>
                        \o (IF run_B THEN <<call_B>> ELSE <<>>)
                        \o (IF run_C THEN <<call_C>> ELSE <<>>),
              docs |-> IF run_C THEN env.C ELSE after_B]
    ELSE [calls |-> << Call("retrieve",
                            [query |-> question, top_k |-> top_k], env.C) >>,
          docs |-> env.C]

\* query, lines 40-69: the retrieval calls made and retrieved_docs after them.
\* env holds what the collaborators answer: env.entities for
\* extraction_agent.run, env.A and env.B for the two filter_retrieve calls,
\* env.C for retrieve.  query_text is the keywords list in attempt A and the
\* string "" in attempt B.
QueryRetrieval(question, top_k, env) ==
    IF _get_query_type(question) = Str_QUANTITATIVE
    THEN LET entities == env.entities
             must_conditions == MustConditions(entities)
             keywords == entities.keywords
             call_A == Call("filter_retrieve",
                            [must_conditions |-> must_conditions,
                             query_text |-> [list |-> keywords]], env.A)
             run_B == env.A = <<>> /\ must_conditions # <<>>
             call_B == Call("filter_retrieve",
                            [must_conditions |-> must_conditions,
                             query_text |-> [str |-> <<>>]], env.B)
             after_B == IF run_B THEN env.B ELSE env.A
             run_C == after_B = <<>>
             call_C == Call("retrieve",
                            [query |-> question, top_k |-> top_k], env.C)
         IN  [calls |-> << Call("extraction_agent.run", <<question>>, entities),
                           call_A >>
                        \o (IF run_B THEN <<call_B>> ELSE <<>>)
                        \o (IF run_C THEN <<call_C>> ELSE <<>>),
              docs |-> IF run_C THEN env.C ELSE after_B]
    ELSE [calls |-> << Call("retrieve",
                            [query |-> question, top_k |-> top_k], env.C) >>,
          docs |-> env.C]

\* variant: no deduplication
UniqueDocs_all(docs) == docs

\* list({doc.page_content: doc for doc in retrieved_docs}.values()): a dict
\* keeps the position of the first insertion of a key and the value of the
\* last one
UniqueDocs(docs) ==
    LET n == Len(docs)
        IsFirst(i) ==
            \A j \in 1..(i - 1) : docs[j].page_content # docs[i].page_content
        Last(i) ==
            CHOOSE j \in i..n :
                /\ docs[j].page_content = docs[i].page_content
                /\ \A k \in (j + 1)..n :
                       docs[k].page_content # docs[i].page_content
        firsts == SelectSeq([i \in 1..n |-> i], IsFirst)
    IN  [k \in 1..Len(firsts) |-> docs[Last(firsts[k])]]

\* doc.metadata.get(key, default)
HasKey(metadata, key) == key \in DOMAIN metadata

Str_Scene == <<"S","c","e","n","e"," ">>
Str_NA == <<"N","/","A">>
Str_IDNotFound == <<"I","D"," ","n","o","t"," ","f","o","u","n","d">>

\* f"Scene {scene_number}: {location}" with the defaults of .get
SourceOf(doc) ==
    Str_Scene
    \o (IF HasKey(doc.metadata, "scene_number")
        THEN str(doc.metadata.scene_number) ELSE Str_NA)
    \o Str_ColonSpace
    \o (IF HasKey(doc.metadata, "location")
        THEN doc.metadata.location ELSE Str_Unknown)

ReasoningOf(n, query_type) ==
    <<"T","h","e"," ","a","n","s","w","e","r"," ","w","a","s"," ","s","y","n","t","h","e","s","i","z","e","d"," ","f","r","o","m"," ">> \o str(n)
    \o <<" ","d","o","c","u","m","e","n","t","s"," ","r","e","t","r","i","e","v","e","d"," ","v","i","a"," ","a"," ">> \o lower(query_type)
    \o <<" ","s","e","a","r","c","h"," ","s","t","r","a","t","e","g","y",".">>

RetrievedDoc(doc) ==
    [id |-> IF HasKey(doc.metadata, "qdrant_id")
            THEN doc.metadata.qdrant_id ELSE Str_IDNotFound,
     page_content |-> doc.page_content,
     metadata |-> doc.metadata]

\* variant: a response whose reasoning had to be filled in is given
\* confidence 0
ResultData_distrusts_filled(response, docs, query_type, attach_documents) ==
    [query |-> response.query,
     answer |-> response.answer,
     confidence |-> IF StrTruthy(response.reasoning)
                    THEN response.confidence ELSE 0,
     sources_used |->
        IF response.sources_used = <<>>
        THEN [k \in 1..Len(docs) |-> SourceOf(docs[k])]
        ELSE response.sources_used,
     reasoning |->
        IF StrTruthy(response.reasoning) THEN response.reasoning
        ELSE {ReasoningOf(Len(docs), query_type)},
     retrieved_documents |->
        IF attach_documents
        THEN {[k \in 1..Len(docs) |-> RetrievedDoc(docs[k])]}
        ELSE {<<>>}]

\* query, lines 77-104: result.model_dump() keeps every field of the
\* MatrixResponse; then sources_used and reasoning are filled if falsy and
\* retrieved_documents is set.  docs is unique_docs.
ResultData(response, docs, query_type, attach_documents) ==
    [query |-> response.query,
     answer |-> response.answer,
     confidence |-> response.confidence,
     sources_used |->
        IF response.sources_used = <<>>
        THEN [k \in 1..Len(docs) |-> SourceOf(docs[k])]
        ELSE response.sources_used,
     reasoning |->
        IF StrTruthy(response.reasoning) THEN response.reasoning
        ELSE {ReasoningOf(Len(docs), query_type)},
     retrieved_documents |->
        IF attach_documents
        THEN {[k \in 1..Len(docs) |-> RetrievedDoc(docs[k])]}
        ELSE {<<>>}]

\* RAGService.query
query(question, top_k, attach_documents, env) ==
    LET retrieval == QueryRetrieval(question, top_k, env)
        docs == UniqueDocs(retrieval.docs)
    IN  [calls |-> Append(retrieval.calls,
                          Call("generate_response",
                               [query |-> question, context |-> docs],
                               env.response)),
         retrieved_docs |-> retrieval.docs,
         unique_docs |-> docs,
         result_data |-> ResultData(env.response, docs,
                                    _get_query_type(question),
                                    attach_documents)]

-----------------------------------------------------------------------------
(* What the collaborators return *)

\* what the loader returns to index: the scene chunks of any line items
LoaderOutputs ==
    {load_documents(DocumentsOf(items, 1)) : items \in LineItemsUpTo(MaxDocs)}

\* a script of three scenes in the same location, the first two with a cue
\* and nothing else: their chunks have the same text
IndexedScript ==
    DocumentsOf(<< [text_type |-> "location", text |-> Str_Lab],
                   [text_type |-> "character", text |-> Str_Neo],
                   [text_type |-> "location", text |-> Str_Lab],
                   [text_type |-> "character", text |-> Str_Neo],
                   [text_type |-> "location", text |-> Str_Lab],
                   [text_type |-> "character", text |-> Str_Neo],
                   [text_type |-> "dialog", text |-> Str_Run] >>, 4)

\* QdrantRetrieverService.index_documents: one point per document, with the
\* document's _id as id and its page_content and metadata as payload
index_documents(docs) ==
    [i \in 1..Len(docs) |->
        [id |-> docs[i].metadata._id,
         payload |-> [page_content |-> docs[i].page_content,
                      metadata |-> docs[i].metadata]]]

_create_document_from_point(point) ==
    [page_content |-> point.payload.page_content,
     metadata |->
        [f \in DOMAIN point.payload.metadata \cup {"qdrant_id"} |->
            IF f = "qdrant_id" THEN point.id
            ELSE point.payload.metadata[f]]]

Points == index_documents(load_documents(IndexedScript))

\* what a retrieval call returns: documents of distinct points, in any order
IsInjective(l, i) == \A j \in 1..Len(l) : l[j].metadata.qdrant_id # i

RECURSIVE DistinctDocListsUpTo(_)
DistinctDocListsUpTo(n) ==
    IF n = 0 THEN {<<>>}
    ELSE LET shorter == DistinctDocListsUpTo(n - 1)
         IN  shorter
             \cup UNION {
                    {Append(l, _create_document_from_point(Points[i])) :
                        i \in {k \in 1..Len(Points) :
                                 IsInjective(l, Points[k].id)}} :
                    l \in {m \in shorter : Len(m) = n - 1}}

DocLists == DistinctDocListsUpTo(MaxRetrieved)

Str_HowMany == <<"H","o","w"," ","m","a","n","y"," ","g","u","n","s","?">>
Str_Recount == <<"R","e","c","o","u","n","t"," ","i","t">>
Str_FindEvery == <<"F","I","N","D"," ","E","V","E","R","Y"," ","g","u","n">>
Str_WhoIsNeo == <<"W","h","o"," ","i","s"," ","N","e","o","?">>
Str_ListThemAll == <<"L","i","s","t"," ","t","h","e","m"," ","a","l","l">>

Questions ==
    {Str_HowMany, Str_Recount, Str_FindEvery, Str_WhoIsNeo, Str_ListThemAll}

TopKs == {1, 10}

Str_Gun == <<"g","u","n">>
Str_neo == <<"N","e","o">>

\* CountingExtraction: character Optional[str], keywords List[str]
Entities ==
    {[character |-> c, keywords |-> k] :
        c \in {{}, {<<>>}, {Str_neo}}, k \in {<<>>, <<Str_Gun>>}}

Str_Rephrased == <<"G","u","n","s","?">>
Str_Yes == <<"Y","e","s">>
Str_No == <<"N","o">>
Str_Core1 == <<"c","o","r","e","1">>
Str_Because == <<"B","e","c","a","u","s","e",".">>

\* MatrixResponse; confidence in hundredths
Responses(question) ==
    {[query |-> q, answer |-> a.answer, confidence |-> a.confidence,
      sources_used |-> su, reasoning |-> r, retrieved_documents |-> {}] :
        q \in {question, Str_Rephrased},
        a \in {[answer |-> Str_Yes, confidence |-> 99],
               [answer |-> Str_No, confidence |-> 0]},
        su \in {<<>>, <<Str_Core1>>},
        r \in {{}, {<<>>}, {Str_Because}}}

NoEntities == [character |-> {}, keywords |-> <<>>]

-----------------------------------------------------------------------------
(* Specification of RAGService: one call of index or of query *)

InitRag ==
    /\ InitConfig
    /\ description_margins = {8}
    /\ start_page = {1}
    /\ line_text = <<>>
    /\ page_number = 0
    /\ result = None
    /\ reader_pages = <<>>
    /\ page = NoPage
    /\ page_outcome = NoOutcome
    /\ documents = <<>>
    /\ scene_chunks = <<>>
    /\ NoRequest
    /\ pc = "rag"

Index ==
    /\ pc = "rag"
    /\ \E initialized \in BOOLEAN :
         \E loaded \in (IF initialized THEN {<<>>} ELSE LoaderOutputs) :
            /\ request' = [op |-> "index"]
            /\ calls' = index(initialized, loaded)
    /\ pc' = "index_returned"
    /\ UNCHANGED <<loader_vars, retrieved_docs, unique_docs, result_data>>

\* the answer to a call that is not made is left empty
Query ==
    /\ pc = "rag"
    /\ \E question \in Questions, top_k \in TopKs, attach_documents \in BOOLEAN :
       LET quantitative == _get_query_type(question) = Str_QUANTITATIVE
       IN  \E entities \in (IF quantitative THEN Entities ELSE {NoEntities}) :
           \E a \in (IF quantitative THEN DocLists ELSE {<<>>}) :
           \E b \in (IF quantitative /\ a = <<>>
                        /\ StrTruthy(entities.character)
                     THEN DocLists ELSE {<<>>}) :
           \E c \in (IF ~quantitative \/ (a = <<>> /\ b = <<>>)
                     THEN {l \in DocLists : Len(l) <= top_k} ELSE {<<>>}) :
           \E response \in Responses(question) :
              LET out == query(question, top_k, attach_documents,
                               [entities |-> entities, A |-> a, B |-> b,
                                C |-> c, response |-> response])
              IN  /\ request' = [op |-> "query", question |-> question,
                                 top_k |-> top_k,
                                 attach_documents |-> attach_documents]
                  /\ calls' = out.calls
                  /\ retrieved_docs' = out.retrieved_docs
                  /\ unique_docs' = out.unique_docs
                  /\ result_data' = out.result_data
    /\ pc' = "query_returned"
    /\ UNCHANGED loader_vars

NextRag == Index \/ Query

SpecRag == InitRag /\ [][NextRag]_vars

-----------------------------------------------------------------------------
(* Properties of RAGService, checked under SpecRag *)

CallsNamed(name) == SelectSeq(calls, LAMBDA call : call.name = name)

\* C25: index(): when is_initialized returns False, load_documents is called
\* exactly once and then index_documents exactly once, with the list that
\* load_documents returned; when it returns True, neither is called.
C25_IndexCalls ==
    pc = "index_returned" =>
        /\ Len(calls) >= 1
        /\ calls[1].name = "is_initialized"
        /\ IF calls[1].returned
           THEN /\ CallsNamed("load_documents") = <<>>
                /\ CallsNamed("index_documents") = <<>>
           ELSE /\ Len(CallsNamed("load_documents")) = 1
                /\ Len(CallsNamed("index_documents")) = 1
                /\ \E i, j \in 1..Len(calls) :
                      /\ i < j
                      /\ calls[i].name = "load_documents"
                      /\ calls[j].name = "index_documents"
                      /\ calls[j].args = <<calls[i].returned>>

C25_Witness ==
    /\ pc = "index_returned"
    /\ ~calls[1].returned
    /\ \E i \in 1..Len(calls) :
          calls[i].name = "load_documents" /\ Len(calls[i].returned) >= 2

\* the generator's answer to the query
Response == CallsNamed("generate_response")[1].returned

RetrievalCalls ==
    SelectSeq(calls,
              LAMBDA call : call.name \in {"filter_retrieve", "retrieve"})

IsAttemptA(call, must) ==
    /\ call.name = "filter_retrieve"
    /\ call.args.must_conditions = must
    /\ DOMAIN call.args.query_text = {"list"}

IsAttemptB(call, must) ==
    /\ call.name = "filter_retrieve"
    /\ call.args.must_conditions = must
    /\ call.args.query_text = [str |-> <<>>]

IsAttemptC(call) ==
    /\ call.name = "retrieve"
    /\ call.args.query = request.question

\* C27: a QUANTITATIVE question runs attempt A always, attempt B only if A
\* returned nothing and there is a character condition, attempt C only if
\* every earlier attempt returned nothing, in this order, and keeps the
\* first non-empty answer; a QUALITATIVE question makes exactly one retrieve
\* call and no filter_retrieve call.
C27_RetrievalOrder ==
    pc = "query_returned" =>
        LET r == RetrievalCalls
            n == Len(r)
        IN  IF \E k \in 1..Len(quantitative_indicators) :
                  Contains(lower(request.question), quantitative_indicators[k])
            THEN LET entities == CallsNamed("extraction_agent.run")[1].returned
                     must == IF entities.character \in {{}, {<<>>}}
                             THEN <<>>
                             ELSE << [key |-> "characters",
                                      value |->
                                        upper(StrOf(entities.character))] >>
                 IN  /\ n \in 1..3
                     /\ IsAttemptA(r[1], must)
                     /\ r[1].args.query_text.list = entities.keywords
                     /\ \A i \in 1..(n - 1) : r[i].returned = <<>>
                     /\ r[n].returned = <<>> => IsAttemptC(r[n])
                     /\ retrieved_docs = r[n].returned
                     /\ n = 2 => \/ IsAttemptB(r[2], must) /\ must # <<>>
                                 \/ IsAttemptC(r[2]) /\ must = <<>>
                     /\ n = 3 => /\ IsAttemptB(r[2], must)
                                 /\ must # <<>>
                                 /\ IsAttemptC(r[3])
            ELSE /\ n = 1
                 /\ IsAttemptC(r[1])
                 /\ retrieved_docs = r[1].returned

C27_Witness ==
    /\ pc = "query_returned"
    /\ Len(RetrievalCalls) = 3
    /\ RetrievalCalls[3].returned # <<>>
    /\ RetrievalCalls[1].args.must_conditions
         = << [key |-> "characters", value |-> <<"N","E","O">>] >>

PageContents(docs) == {docs[i].page_content : i \in 1..Len(docs)}

\* C29: the generator is called exactly once per query, with a context in
\* which no two documents share a page_content and every page_content of the
\* retrieved documents appears once; retrieved_documents is the empty list
\* when attach_documents is false and has one entry per document of that
\* context when it is true.
C29_DeduplicatedContext ==
    pc = "query_returned" =>
        /\ Len(CallsNamed("generate_response")) = 1
        /\ LET context == CallsNamed("generate_response")[1].args.context
               attached == CHOOSE l \in result_data.retrieved_documents : TRUE
           IN  /\ \A i, j \in 1..Len(context) :
                     context[i].page_content = context[j].page_content
                        => i = j
               /\ PageContents(context) = PageContents(retrieved_docs)
               /\ \A i \in 1..Len(context) :
                     \E j \in 1..Len(retrieved_docs) :
                        context[i] = retrieved_docs[j]
               /\ result_data.retrieved_documents # {}
               /\ IF request.attach_documents
                  THEN /\ Len(attached) = Len(context)
                       /\ \A i \in 1..Len(context) :
                             /\ attached[i].page_content
                                  = context[i].page_content
                             /\ attached[i].metadata = context[i].metadata
                  ELSE attached = <<>>

C29_Witness ==
    /\ pc = "query_returned"
    /\ request.attach_documents
    /\ Len(retrieved_docs) = 2
    /\ Len(unique_docs) = 1
    /\ Len(StrOf(result_data.retrieved_documents)) = 1

====
